---------------------------- MODULE Spec2Model ----------------------------
(***************************************************************************)
(* A model of the EPC comparator of src/app.py: the site-notes QA engine   *)
(* (compare_site_notes), the text extractors (parse_summary,               *)
(* parse_numeric_measures, parse_recommendations, parse_site_notes with    *)
(* to_bool) and the diff of the /compare handler (header, delta,           *)
(* pick_status).                                                           *)
(*                                                                         *)
(* Python values are modelled as follows.  An optional value (None or a    *)
(* value) is a sequence of length at most one: <<>> is None and <<v>> is   *)
(* the value v.  A str is a TLA+ string, read character by character with  *)
(* Len and SubSeq.  A float is the integer number of its hundredths        *)
(* (site-note floats: of its tenths), so that b - a is exact.              *)
(***************************************************************************)
EXTENDS Integers, Sequences, FiniteSets, TLC

VARIABLES
    pc,         \* which operation has run: "idle" before, "done" after
    pre,        \* compare_site_notes: the PRE site-notes dict
    post,       \* compare_site_notes: the POST site-notes dict
    issues,     \* compare_site_notes: the list of findings it returns
    doc_text,   \* gather: the extracted text of the document
    doc,        \* gather: the record it returns
    APP_SAFE,   \* the APP_SAFE setting of the process
    request,    \* /compare: the extracted texts of the two uploads, the form fields
    pre_data,   \* /compare: the record of the PRE document
    post_data,  \* /compare: the record of the POST document
    header,     \* /compare: the header handed to the report
    diff        \* /compare: the diff handed to the report

vars == <<pc, pre, post, issues, doc_text, doc, APP_SAFE, request, pre_data, post_data, header, diff>>
qaVars == <<pre, post, issues>>
parseVars == <<doc_text, doc>>
diffVars == <<APP_SAFE, request, pre_data, post_data, header, diff>>

\* the value of a variable that the operation under study does not use
Unused == <<>>
QaUnused == pre = Unused /\ post = Unused /\ issues = Unused
ParseUnused == doc_text = Unused /\ doc = Unused
DiffUnused ==
    /\ APP_SAFE = Unused /\ request = Unused /\ pre_data = Unused
    /\ post_data = Unused /\ header = Unused /\ diff = Unused

None == <<>>
Some(v) == <<v>>

(***************************************************************************)
(* Bounds of the inputs.                                                   *)
(***************************************************************************)
\* at most this many (side, attribute) entries of the two dicts are not None
MaxPresent == 3
\* counts (lights, doors, loft mm) range over 0..MaxCount
MaxCount == 3
\* air permeability ranges over 0.0, 0.5, ..., MaxAp4 * 0.5
MaxAp4 == 5

(***************************************************************************)
(* compare_site_notes (src/app.py 226-294)                                 *)
(***************************************************************************)
\* the (field, label) list of the rule-1 loop, in the order of the source
BOOL_FIELDS ==
    << <<"smart_gas_meter", "Smart gas meter">>,
       <<"smart_elec_meter", "Smart electric meter">>,
       <<"mechanical_ventilation", "Mechanical ventilation">>,
       <<"double_glazed", "Double glazing">>,
       <<"pv_present", "Solar PV">>,
       <<"flat_roof_insulated", "Flat roof insulation">> >>

\* the keys compare_site_notes reads with .get
NoteKeys ==
    {BOOL_FIELDS[i][1] : i \in 1..Len(BOOL_FIELDS)} \cup
    {"air_permeability_ap4", "low_energy_lights", "lights_total",
     "doors_uninsulated", "loft_insulation_mm", "heating_controls_smart",
     "main_heat_eff_pct"}

\* add(level, field, msg): the finding appended to issues.  msg is the
\* message with the formatted numbers left out.
add(level, field, msg) == [level |-> level, field |-> field, message |-> msg]

\* delta(a, b) of compare_site_notes
delta(a, b) == IF a = None \/ b = None THEN None ELSE Some(b[1] - a[1])

\* Python truth of an optional bool and of an optional number
TruthyB(o) == o = Some(TRUE)
TruthyN(o) == o # None /\ o[1] # 0

MSG_TICKED == "ticked PRE but not POST - likely missed on POST."
MSG_ADDED == "added on POST - verify this was actually installed."
MSG_AP4_WORSE == "AP4 got worse. Re-check air test entry."
MSG_AP4_BETTER == "AP4 improved. Ensure test evidence attached."
MSG_TOTALS == "Total points changed. Confirm count method."
MSG_LOW_ENERGY == "Low-energy fittings dropped. Check data."
MSG_DOORS == "Uninsulated doors reduced. Were doors replaced/insulated?"
MSG_LOFT == "Thickness decreased. Check entry."
MSG_CONTROLS == "Smart controls marked but main system details missing. Add boiler/system data."
MSG_PV_LIGHTS == "PV present but lighting counts missing. Consider completing lighting data for SAP."
MSG_PV_TICKED == "PV ticked PRE but not POST - confirm which is correct."

\* BoolCheck with "not post_v" in place of "post_v is False"
BoolCheck_not(a, b, i) ==
    LET field == BOOL_FIELDS[i][1]
        label == BOOL_FIELDS[i][2]
        pre_v == a[field]
        post_v == b[field]
    IN  IF pre_v = Some(TRUE) /\ post_v # Some(TRUE)
          THEN <<add("error", label, MSG_TICKED)>>
        ELSE IF pre_v = Some(FALSE) /\ post_v = Some(TRUE)
          THEN <<add("info", label, MSG_ADDED)>>
        ELSE <<>>

\* 1) one pass of the loop over BOOL_FIELDS
BoolCheck(a, b, i) ==
    LET field == BOOL_FIELDS[i][1]
        label == BOOL_FIELDS[i][2]
        pre_v == a[field]
        post_v == b[field]
    IN  IF pre_v = Some(TRUE) /\ post_v = Some(FALSE)
          THEN <<add("error", label, MSG_TICKED)>>
        ELSE IF pre_v = Some(FALSE) /\ post_v = Some(TRUE)
          THEN <<add("info", label, MSG_ADDED)>>
        ELSE <<>>

RECURSIVE BoolChecks(_, _, _)
BoolChecks(a, b, i) ==
    IF i > Len(BOOL_FIELDS) THEN <<>>
    ELSE BoolCheck(a, b, i) \o BoolChecks(a, b, i + 1)

\* 2) air permeability; ap4_d is in tenths, so 0.5 is 5 and -2.0 is -20
Ap4Check(a, b) ==
    LET ap4_d == delta(a["air_permeability_ap4"], b["air_permeability_ap4"])
    IN  IF ap4_d # None
          THEN IF ap4_d[1] > 5
                 THEN <<add("warning", "Air permeability (AP4)", MSG_AP4_WORSE)>>
               ELSE IF ap4_d[1] < -20
                 THEN <<add("info", "Air permeability (AP4)", MSG_AP4_BETTER)>>
               ELSE <<>>
        ELSE <<>>

\* lighting consistency
LightingTotalsCheck(a, b) ==
    LET pre_total == a["lights_total"]
        post_total == b["lights_total"]
    IN  IF TruthyN(pre_total) /\ TruthyN(post_total) /\ pre_total # post_total
          THEN <<add("warning", "Lighting totals", MSG_TOTALS)>>
        ELSE <<>>

LowEnergyCheck(a, b) ==
    LET pre_le == a["low_energy_lights"]
        post_le == b["low_energy_lights"]
    IN  IF TruthyN(pre_le) /\ TruthyN(post_le) /\ post_le[1] < pre_le[1]
          THEN <<add("warning", "Low-energy lighting", MSG_LOW_ENERGY)>>
        ELSE <<>>

\* doors sanity
DoorsCheck(a, b) ==
    LET pre_doors == a["doors_uninsulated"]
        post_doors == b["doors_uninsulated"]
    IN  IF pre_doors # None /\ post_doors # None /\ post_doors[1] < pre_doors[1] - 2
          THEN <<add("info", "Doors", MSG_DOORS)>>
        ELSE <<>>

\* insulation coherence
LoftCheck(a, b) ==
    LET pre_loft_mm == a["loft_insulation_mm"]
        post_loft_mm == b["loft_insulation_mm"]
    IN  IF pre_loft_mm # None /\ post_loft_mm # None /\ post_loft_mm[1] < pre_loft_mm[1]
          THEN <<add("warning", "Loft insulation", MSG_LOFT)>>
        ELSE <<>>

\* controls coherence
ControlsCheck(a, b) ==
    IF TruthyB(b["heating_controls_smart"]) /\ ~TruthyN(b["main_heat_eff_pct"])
      THEN <<add("warning", "Heating controls", MSG_CONTROLS)>>
    ELSE <<>>

\* PvLightsCheck with the None test inverted
PvLightsCheck_inverted(a, b) ==
    IF TruthyB(b["pv_present"]) /\ b["low_energy_lights"] # None
      THEN <<add("info", "Solar PV", MSG_PV_LIGHTS)>>
    ELSE <<>>

\* PV coherence
PvLightsCheck(a, b) ==
    IF TruthyB(b["pv_present"]) /\ b["low_energy_lights"] = None
      THEN <<add("info", "Solar PV", MSG_PV_LIGHTS)>>
    ELSE <<>>

PvTickedCheck(a, b) ==
    IF TruthyB(a["pv_present"]) /\ ~TruthyB(b["pv_present"])
      THEN <<add("error", "Solar PV", MSG_PV_TICKED)>>
    ELSE <<>>

\* compare_site_notes with the doors and the loft checks in the other order
compare_site_notes_reordered(a, b) ==
    BoolChecks(a, b, 1) \o Ap4Check(a, b) \o LightingTotalsCheck(a, b)
      \o LowEnergyCheck(a, b) \o LoftCheck(a, b) \o DoorsCheck(a, b)
      \o ControlsCheck(a, b) \o PvLightsCheck(a, b) \o PvTickedCheck(a, b)

\* the list compare_site_notes(pre, post) returns
compare_site_notes(a, b) ==
    BoolChecks(a, b, 1) \o Ap4Check(a, b) \o LightingTotalsCheck(a, b)
      \o LowEnergyCheck(a, b) \o DoorsCheck(a, b) \o LoftCheck(a, b)
      \o ControlsCheck(a, b) \o PvLightsCheck(a, b) \o PvTickedCheck(a, b)

(***************************************************************************)
(* The site-notes dicts compare_site_notes is applied to.                  *)
(***************************************************************************)
BoolKeys == {BOOL_FIELDS[i][1] : i \in 1..Len(BOOL_FIELDS)} \cup {"heating_controls_smart"}
CountKeys == {"low_energy_lights", "lights_total", "doors_uninsulated", "loft_insulation_mm"}

\* the values a key can hold when it is not None, in a fixed order
KeyValues(k) ==
    IF k \in BoolKeys THEN <<TRUE, FALSE>>
    ELSE IF k \in CountKeys THEN [j \in 1..(MaxCount + 1) |-> j - 1]
    ELSE IF k = "air_permeability_ap4" THEN [j \in 1..(MaxAp4 + 1) |-> 5 * (j - 1)]
    ELSE <<0, 895>>   \* main_heat_eff_pct: 0.0 or 89.5

\* the entries of the two dicts, in a fixed order
SlotSeq ==
    << <<"pre", "smart_gas_meter">>, <<"post", "smart_gas_meter">>,
       <<"pre", "smart_elec_meter">>, <<"post", "smart_elec_meter">>,
       <<"pre", "mechanical_ventilation">>, <<"post", "mechanical_ventilation">>,
       <<"pre", "double_glazed">>, <<"post", "double_glazed">>,
       <<"pre", "pv_present">>, <<"post", "pv_present">>,
       <<"pre", "flat_roof_insulated">>, <<"post", "flat_roof_insulated">>,
       <<"pre", "air_permeability_ap4">>, <<"post", "air_permeability_ap4">>,
       <<"pre", "lights_total">>, <<"post", "lights_total">>,
       <<"pre", "low_energy_lights">>, <<"post", "low_energy_lights">>,
       <<"pre", "doors_uninsulated">>, <<"post", "doors_uninsulated">>,
       <<"pre", "loft_insulation_mm">>, <<"post", "loft_insulation_mm">>,
       <<"pre", "heating_controls_smart">>, <<"post", "heating_controls_smart">>,
       <<"pre", "main_heat_eff_pct">>, <<"post", "main_heat_eff_pct">> >>

\* an entry that is not None: <<i, j>> gives entry SlotSeq[i] its j-th value
SlotChoices ==
    {c \in (1..Len(SlotSeq)) \X (1..(MaxCount + MaxAp4 + 2)) :
        c[2] <= Len(KeyValues(SlotSeq[c[1]][2]))}

\* the ways to give at most k entries a value: sequences of choices, the
\* entries in increasing order
RECURSIVE SlotFills(_)
SlotFills(k) ==
    IF k = 0 THEN {<<>>}
    ELSE LET less == SlotFills(k - 1)
             longest == {g \in less : Len(g) = k - 1}
         IN  less \cup
             {Append(fc[1], fc[2]) :
                fc \in {x \in longest \X SlotChoices :
                           k = 1 \/ x[2][1] > x[1][k - 1][1]}}

\* the dict of one side under a fill
SideNotes(fill, side) ==
    [k \in NoteKeys |->
        IF \E n \in 1..Len(fill) : SlotSeq[fill[n][1]] = <<side, k>>
          THEN LET n == CHOOSE n \in 1..Len(fill) : SlotSeq[fill[n][1]] = <<side, k>>
               IN  Some(KeyValues(k)[fill[n][2]])
        ELSE None]

NoNotes == [k \in NoteKeys |-> None]

InitQA ==
    /\ pc = "idle"
    /\ \E f \in SlotFills(MaxPresent - 1), c \in SlotChoices \cup {<<0, 0>>} :
          /\ \/ c = <<0, 0>>
             \/ /\ c # <<0, 0>>
                /\ Len(f) = MaxPresent - 1
                /\ Len(f) = 0 \/ c[1] > f[Len(f)][1]
          /\ LET fill == IF c = <<0, 0>> THEN f ELSE Append(f, c)
             IN  /\ pre = SideNotes(fill, "pre")
                 /\ post = SideNotes(fill, "post")
    /\ issues = <<>>
    /\ ParseUnused
    /\ DiffUnused

\* one call of compare_site_notes(pre, post)
CompareSiteNotes ==
    /\ pc = "idle"
    /\ issues' = compare_site_notes(pre, post)
    /\ pc' = "done"
    /\ UNCHANGED <<pre, post, parseVars, diffVars>>

NextQA == CompareSiteNotes

SpecQA == InitQA /\ [][NextQA]_vars

(***************************************************************************)
(* A second family of inputs for compare_site_notes: every rule is given,  *)
(* independently of the others, either no data, or data that makes it      *)
(* fire, so that any set of rules fires together.                          *)
(***************************************************************************)
\* the (pre, post) values of a rule-1 field
BoolScenarios == {<<None, None>>, <<Some(TRUE), Some(FALSE)>>, <<Some(FALSE), Some(TRUE)>>}
\* no air test; worse by 1.0; better by 2.5
Ap4Scenarios == {<<None, None>>, <<Some(0), Some(10)>>, <<Some(25), Some(0)>>}
\* no count; a count that went down
CountScenarios == {<<None, None>>, <<Some(MaxCount), Some(MaxCount - 1)>>}
\* no door count; door count down by MaxCount
DoorScenarios == {<<None, None>>, <<Some(MaxCount), Some(0)>>}

InitOrder ==
    /\ pc = "idle"
    /\ \E b \in [{BOOL_FIELDS[i][1] : i \in 1..Len(BOOL_FIELDS)} -> BoolScenarios],
          ap \in Ap4Scenarios, tot \in CountScenarios, le \in CountScenarios,
          doors \in DoorScenarios, loft \in CountScenarios,
          ctrl \in {None, Some(TRUE)}, eff \in {None, Some(895)} :
          LET side(n) ==
                [k \in NoteKeys |->
                    IF k \in DOMAIN b THEN b[k][n]
                    ELSE IF k = "air_permeability_ap4" THEN ap[n]
                    ELSE IF k = "lights_total" THEN tot[n]
                    ELSE IF k = "low_energy_lights" THEN le[n]
                    ELSE IF k = "doors_uninsulated" THEN doors[n]
                    ELSE IF k = "loft_insulation_mm" THEN loft[n]
                    ELSE IF k = "heating_controls_smart" THEN ctrl
                    ELSE eff]
          IN  pre = side(1) /\ post = side(2)
    /\ issues = <<>>
    /\ ParseUnused
    /\ DiffUnused

SpecOrder == InitOrder /\ [][NextQA]_vars

(***************************************************************************)
(* Properties of compare_site_notes.                                       *)
(***************************************************************************)
\* the findings of the rule-1 loop are those with one of its two messages
IsRule1(f) == f.message \in {MSG_TICKED, MSG_ADDED}
Rule1Findings(label) ==
    {n \in 1..Len(issues) : IsRule1(issues[n]) /\ issues[n].field = label}

\* C1: for each of the six rule-1 fields and every pre/post value among
\* true, false and null, the returned list holds a rule-1 finding of level
\* error for the field exactly when pre is true and post is false, one of
\* level info exactly when pre is false and post is true, and no rule-1
\* finding for the field otherwise.
C1_Rule1Exact ==
    pc = "done" =>
      \A i \in 1..Len(BOOL_FIELDS) :
        LET field == BOOL_FIELDS[i][1]
            found == Rule1Findings(BOOL_FIELDS[i][2])
            regress == pre[field] = Some(TRUE) /\ post[field] = Some(FALSE)
            added == pre[field] = Some(FALSE) /\ post[field] = Some(TRUE)
        IN  /\ (\E n \in found : issues[n].level = "error") <=> regress
            /\ (\E n \in found : issues[n].level = "info") <=> added
            /\ \A n \in found : issues[n].level \in {"error", "info"}
            /\ Cardinality(found) <= 1
            /\ ~regress /\ ~added => found = {}

\* C1's case: a field true in PRE and false in POST and its error returned,
\* beside a field true in PRE and null in POST with no rule-1 finding
C1_Witness ==
    /\ pc = "done"
    /\ \E i, j \in 1..Len(BOOL_FIELDS) :
          /\ pre[BOOL_FIELDS[i][1]] = Some(TRUE)
          /\ post[BOOL_FIELDS[i][1]] = Some(FALSE)
          /\ pre[BOOL_FIELDS[j][1]] = Some(TRUE)
          /\ post[BOOL_FIELDS[j][1]] = None
          /\ \E n \in Rule1Findings(BOOL_FIELDS[i][2]) : issues[n].level = "error"
          /\ Rule1Findings(BOOL_FIELDS[j][2]) = {}

\* the dict {field: v}
OnlyField(field, v) == [NoNotes EXCEPT ![field] = Some(v)]

\* C4 as stated: for every rule-1 field f, {f: true} against {f: false}
\* returns exactly one finding, of level error, and {f: false} against
\* {f: true} exactly one finding, of level info.
C4_OneFindingEveryField ==
    pc = "done" =>
      \A i \in 1..Len(BOOL_FIELDS) :
        LET field == BOOL_FIELDS[i][1]
        IN  /\ pre = OnlyField(field, TRUE) /\ post = OnlyField(field, FALSE)
                 => Len(issues) = 1 /\ issues[1].level = "error"
            /\ pre = OnlyField(field, FALSE) /\ post = OnlyField(field, TRUE)
                 => Len(issues) = 1 /\ issues[1].level = "info"

\* C4, amended: for every rule-1 field f other than pv_present, {f: true}
\* against {f: false} returns exactly one finding, of level error, and the
\* swapped dicts exactly one finding, of level info; for pv_present the PV
\* coherence rule fires as well and two findings are returned, both of
\* level error, and for the swapped dicts both of level info.
C4_OneFindingTwoForPv ==
    pc = "done" =>
      \A i \in 1..Len(BOOL_FIELDS) :
        LET field == BOOL_FIELDS[i][1]
            label == BOOL_FIELDS[i][2]
            n == IF field = "pv_present" THEN 2 ELSE 1
        IN  /\ pre = OnlyField(field, TRUE) /\ post = OnlyField(field, FALSE)
                 => /\ Len(issues) = n
                    /\ \A m \in 1..n : issues[m].level = "error"
                    /\ issues[1] = add("error", label, MSG_TICKED)
                    /\ n = 2 => issues[2] = add("error", "Solar PV", MSG_PV_TICKED)
            /\ pre = OnlyField(field, FALSE) /\ post = OnlyField(field, TRUE)
                 => /\ Len(issues) = n
                    /\ \A m \in 1..n : issues[m].level = "info"
                    /\ issues[1] = add("info", label, MSG_ADDED)
                    /\ n = 2 => issues[2] = add("info", "Solar PV", MSG_PV_LIGHTS)

\* C4's case: {pv_present: false} against {pv_present: true}, compared
C4_Witness ==
    /\ pc = "done"
    /\ pre = OnlyField("pv_present", FALSE)
    /\ post = OnlyField("pv_present", TRUE)
    /\ Len(issues) = 2

\* C6 as stated: whenever lights_total is not null in PRE and in POST and
\* the two differ, a warning on field "Lighting totals" is returned, also
\* when one of the two totals is 0.
C6_TotalsWarning ==
    pc = "done" /\ pre["lights_total"] # None /\ post["lights_total"] # None
                /\ pre["lights_total"] # post["lights_total"]
      => \E n \in 1..Len(issues) :
            issues[n].level = "warning" /\ issues[n].field = "Lighting totals"

\* the place of a finding in the fixed rule order
RuleRank(f) ==
    IF IsRule1(f)
      THEN CHOOSE i \in 1..Len(BOOL_FIELDS) : BOOL_FIELDS[i][2] = f.field
    ELSE IF f.field = "Air permeability (AP4)" THEN 7
    ELSE IF f.field = "Lighting totals" THEN 8
    ELSE IF f.field = "Low-energy lighting" THEN 9
    ELSE IF f.field = "Doors" THEN 10
    ELSE IF f.field = "Loft insulation" THEN 11
    ELSE IF f.field = "Heating controls" THEN 12
    ELSE IF f.level = "info" THEN 13
    ELSE 14

\* the condition of the rule at place r, read on the two dicts alone
RuleFires(r) ==
    LET both(k) == pre[k] # None /\ post[k] # None
    IN  IF r <= 6
          THEN \/ pre[BOOL_FIELDS[r][1]] = Some(TRUE) /\ post[BOOL_FIELDS[r][1]] = Some(FALSE)
               \/ pre[BOOL_FIELDS[r][1]] = Some(FALSE) /\ post[BOOL_FIELDS[r][1]] = Some(TRUE)
        ELSE IF r = 7
          THEN both("air_permeability_ap4") /\
               LET d == post["air_permeability_ap4"][1] - pre["air_permeability_ap4"][1]
               IN  d > 5 \/ d < -20
        ELSE IF r = 8
          THEN both("lights_total") /\ pre["lights_total"] # post["lights_total"]
        ELSE IF r = 9
          THEN both("low_energy_lights") /\ pre["low_energy_lights"][1] # 0
               /\ post["low_energy_lights"][1] # 0
               /\ post["low_energy_lights"][1] < pre["low_energy_lights"][1]
        ELSE IF r = 10
          THEN both("doors_uninsulated") /\
               post["doors_uninsulated"][1] < pre["doors_uninsulated"][1] - 2
        ELSE IF r = 11
          THEN both("loft_insulation_mm") /\
               post["loft_insulation_mm"][1] < pre["loft_insulation_mm"][1]
        ELSE IF r = 12
          THEN post["heating_controls_smart"] = Some(TRUE) /\ post["main_heat_eff_pct"] = None
        ELSE IF r = 13
          THEN post["pv_present"] = Some(TRUE) /\ post["low_energy_lights"] = None
        ELSE pre["pv_present"] = Some(TRUE) /\ post["pv_present"] # Some(TRUE)

\* C10: every rule runs whatever the other rules found (the finding of a
\* rule is in the list exactly when the rule's own condition holds), and the
\* findings are in the fixed rule order: the rule-1 fields in their order,
\* then air permeability, lighting totals, low-energy lighting, doors, loft
\* insulation, heating controls, PV coherence (info before error).
C10_RuleOrder ==
    pc = "done" =>
      /\ \A m, n \in 1..Len(issues) : m < n => RuleRank(issues[m]) < RuleRank(issues[n])
      /\ \A r \in 1..14 : (\E n \in 1..Len(issues) : RuleRank(issues[n]) = r) <=> RuleFires(r)

\* C10's case: a rule-1 finding, a doors finding, a loft finding and the PV
\* error returned together
C10_Witness ==
    /\ pc = "done"
    /\ \E k, l, m, n \in 1..Len(issues) :
          /\ k < l /\ l < m /\ m < n
          /\ RuleRank(issues[k]) = 1
          /\ RuleRank(issues[l]) = 10
          /\ RuleRank(issues[m]) = 11
          /\ RuleRank(issues[n]) = 14

(***************************************************************************)
(* Strings and the pieces of the regular expressions.  A pattern compiled  *)
(* with re.I is matched on the lower-cased text t == Lower(text); Lower    *)
(* keeps the positions, so the groups are cut out of text itself.          *)
(***************************************************************************)
LOWER == "abcdefghijklmnopqrstuvwxyz"
UPPER == "ABCDEFGHIJKLMNOPQRSTUVWXYZ"
DIGITS == "0123456789"

Ch(s, i) == IF i >= 1 /\ i <= Len(s) THEN SubSeq(s, i, i) ELSE ""
Chars(s) == {SubSeq(s, i, i) : i \in 1..Len(s)}
IndexIn(s, c) == CHOOSE i \in 1..Len(s) : SubSeq(s, i, i) = c
Least(S) == CHOOSE x \in S : \A y \in S : x <= y

LowerChars == Chars(LOWER)
UpperChars == Chars(UPPER)
DigitChars == Chars(DIGITS)
LowerOf == [c \in UpperChars |-> Ch(LOWER, IndexIn(UPPER, c))]
UpperOf == [c \in LowerChars |-> Ch(UPPER, IndexIn(LOWER, c))]

IsSpace(c) == c \in {" ", "\n", "\t"}                              \* \s
IsDigit(c) == c \in DigitChars                                     \* \d
IsWordChar(c) == c \in LowerChars \cup UpperChars \cup DigitChars \cup {"_"}   \* \w
IsCased(c) == c \in LowerChars \cup UpperChars

\* str.lower
RECURSIVE Lower(_)
Lower(s) ==
    IF s = "" THEN ""
    ELSE (IF Head(s) \in UpperChars THEN LowerOf[Head(s)] ELSE Head(s)) \o Lower(Tail(s))

\* str.title: a cased character is upper-cased after an uncased one (or at
\* the start) and lower-cased after a cased one
RECURSIVE TitleFrom(_, _)
TitleFrom(s, afterCased) ==
    IF s = "" THEN ""
    ELSE LET c == Head(s)
             d == IF ~IsCased(c) THEN c
                  ELSE IF afterCased
                    THEN (IF c \in UpperChars THEN LowerOf[c] ELSE c)
                  ELSE (IF c \in LowerChars THEN UpperOf[c] ELSE c)
         IN  d \o TitleFrom(Tail(s), IsCased(c))
Title(s) == TitleFrom(s, FALSE)

\* str.strip
RECURSIVE Strip(_)
Strip(s) ==
    IF s = "" THEN ""
    ELSE IF IsSpace(Ch(s, 1)) THEN Strip(Tail(s))
    ELSE IF IsSpace(Ch(s, Len(s))) THEN Strip(SubSeq(s, 1, Len(s) - 1))
    ELSE s

\* "t in s" of two str
Contains(s, t) == \E i \in 0..(Len(s) - Len(t)) : SubSeq(s, i + 1, i + Len(t)) = t

\* the literal lit stands at position i of s
At(s, i, lit) == i >= 1 /\ i + Len(lit) - 1 <= Len(s) /\ SubSeq(s, i, i + Len(lit) - 1) = lit

\* the position after the longest run of \s, of \d, of \w from position i
RECURSIVE SkipWs(_, _)
SkipWs(s, i) == IF IsSpace(Ch(s, i)) THEN SkipWs(s, i + 1) ELSE i
RECURSIVE SkipDigits(_, _)
SkipDigits(s, i) == IF IsDigit(Ch(s, i)) THEN SkipDigits(s, i + 1) ELSE i
RECURSIVE SkipWord(_, _)
SkipWord(s, i) == IF IsWordChar(Ch(s, i)) THEN SkipWord(s, i + 1) ELSE i

\* \b at position p: between the characters p - 1 and p
WordBoundary(s, p) == IsWordChar(Ch(s, p - 1)) # IsWordChar(Ch(s, p))

\* w1\s+w2\s+...\s+wn at position i: the position after the match, 0 if none
RECURSIVE MatchWords(_, _, _)
MatchWords(t, i, ws) ==
    IF ~At(t, i, Head(ws)) THEN 0
    ELSE LET e == i + Len(Head(ws))
         IN  IF Len(ws) = 1 THEN e
             ELSE IF ~IsSpace(Ch(t, e)) THEN 0
             ELSE MatchWords(t, SkipWs(t, e), Tail(ws))

\* (a1|a2|...) at position p: the first alternative that matches, 0 if none
FirstAlt(t, p, alts) ==
    LET S == {k \in 1..Len(alts) : At(t, p, alts[k])}
    IN  IF S = {} THEN 0 ELSE Least(S)

\* (?:\s*[:\-]?\s*(a1|a2|...))? from position e: None if the group does not
\* take part, else <<first, last>> position of what (a1|a2|...) captured
TokenGroup(t, e, alts) ==
    LET p == SkipWs(t, e)
        q == IF Ch(t, p) \in {":", "-"} THEN p + 1 ELSE p
        r == SkipWs(t, q)
        k == FirstAlt(t, r, alts)
    IN  IF k = 0 THEN None ELSE Some(<<r, r + Len(alts[k]) - 1>>)

\* (?:\s*[:\-]?\s*(\d+)\s*mm)? from position e
MmGroup(t, e) ==
    LET p == SkipWs(t, e)
        q == IF Ch(t, p) \in {":", "-"} THEN p + 1 ELSE p
        r == SkipWs(t, q)
        d == SkipDigits(t, r)
    IN  IF d > r /\ At(t, SkipWs(t, d), "mm") THEN Some(<<r, d - 1>>) ELSE None

\* int(float(s)) of a string of digits
RECURSIVE ParseNat(_)
ParseNat(d) ==
    IF d = "" THEN 0
    ELSE ParseNat(SubSeq(d, 1, Len(d) - 1)) * 10 + (IndexIn(DIGITS, Ch(d, Len(d))) - 1)

\* A match object: group 0 and the groups 1..n, each None when it took no part.
Match(whole, groups) == [whole |-> whole, groups |-> groups]
Cut(text, span) == IF span = None THEN None ELSE Some(SubSeq(text, span[1][1], span[1][2]))
\* m.lastindex: the last group that took part, 0 for None
lastindex(m) ==
    LET S == {k \in 1..Len(m.groups) : m.groups[k] # None}
    IN  IF S = {} THEN 0 ELSE CHOOSE k \in S : \A j \in S : j <= k

(***************************************************************************)
(* to_bool, to_int (src/app.py 128-158)                                    *)
(***************************************************************************)
YES_TOKENS == {"y", "yes", "true", "present", "installed", "fitted", "exists", "smart", "on"}
NO_TOKENS == {"n", "no", "false", "absent", "none", "not present", "off"}

to_bool(raw) ==
    IF raw = None THEN None
    ELSE LET s == Lower(Strip(raw[1]))
         IN  IF s \in YES_TOKENS THEN Some(TRUE)
             ELSE IF s \in NO_TOKENS THEN Some(FALSE)
             ELSE IF \E tok \in YES_TOKENS : Contains(s, tok) THEN Some(TRUE)
             ELSE IF \E tok \in NO_TOKENS : Contains(s, tok) THEN Some(FALSE)
             ELSE None

to_int(raw) == IF raw = None THEN None ELSE Some(ParseNat(raw[1]))

(***************************************************************************)
(* parse_site_notes (src/app.py 160-224).  Each re.search is an operator   *)
(* that returns None or the match object of the leftmost match.  The keys  *)
(* internal_wall_insulation_mm, air_permeability_ap4, doors_uninsulated,   *)
(* main_heat_eff_pct and hot_water_type are left out: none of them is a    *)
(* boolean and nothing below reads them from a parsed text.                *)
(***************************************************************************)
YES_NO_ON_OFF == <<"yes", "no", "present", "absent", "true", "false", "on", "off">>
YES_NO_TRUE_FALSE == <<"yes", "no", "present", "absent", "true", "false">>

\* the leftmost match of w1\s+...\s+wn(?:\s*[:\-]?\s*(alts))?
SearchPhrase(text, ws, alts) ==
    LET t == Lower(text)
        S == {i \in 1..Len(t) : MatchWords(t, i, ws) # 0}
    IN  IF S = {} THEN None
        ELSE LET i == Least(S)
                 e == MatchWords(t, i, ws)
                 g == TokenGroup(t, e, alts)
                 stop == IF g = None THEN e - 1 ELSE g[1][2]
             IN  Some(Match(SubSeq(text, i, stop), <<Cut(text, g)>>))

\* smart\s+gas\s+meter(?:\s*[:\-]?\s*(yes|no|present|absent|true|false|on|off))?
re_smart_gas(text) == SearchPhrase(text, <<"smart", "gas", "meter">>, YES_NO_ON_OFF)

\* smart\s+electric(\w*)\s+meter(?:\s*[:\-]?\s*(yes|no|present|absent|true|false|on|off))?
re_smart_elec(text) ==
    LET t == Lower(text)
        \* the position after "meter", 0 if there is no match at i
        stopAt(i) ==
            LET a == MatchWords(t, i, <<"smart", "electric">>)
                w == SkipWord(t, a)
            IN  IF a = 0 \/ ~IsSpace(Ch(t, w)) THEN 0
                ELSE MatchWords(t, SkipWs(t, w), <<"meter">>)
        S == {i \in 1..Len(t) : stopAt(i) # 0}
    IN  IF S = {} THEN None
        ELSE LET i == Least(S)
                 a == MatchWords(t, i, <<"smart", "electric">>)
                 w == SkipWord(t, a)
                 e == stopAt(i)
                 g == TokenGroup(t, e, YES_NO_ON_OFF)
                 stop == IF g = None THEN e - 1 ELSE g[1][2]
             IN  Some(Match(SubSeq(text, i, stop),
                            <<Some(SubSeq(text, a, w - 1)), Cut(text, g)>>))

\* loft\s+insulation(?:\s*[:\-]?\s*(\d+)\s*mm)?
re_loft(text) ==
    LET t == Lower(text)
        S == {i \in 1..Len(t) : MatchWords(t, i, <<"loft", "insulation">>) # 0}
    IN  IF S = {} THEN None
        ELSE LET i == Least(S)
                 e == MatchWords(t, i, <<"loft", "insulation">>)
                 g == MmGroup(t, e)
                 stop == IF g = None THEN e - 1 ELSE SkipWs(t, g[1][2] + 1) + 1
             IN  Some(Match(SubSeq(text, i, stop), <<Cut(text, g)>>))

\* (?:cavity|cav)\s+wall\s+insulation(?:\s*[:\-]?\s*(yes|no|present|absent|true|false))?
re_cavity(text) ==
    LET t == Lower(text)
        stopAt(i) ==
            LET long == MatchWords(t, i, <<"cavity", "wall", "insulation">>)
            IN  IF long # 0 THEN long ELSE MatchWords(t, i, <<"cav", "wall", "insulation">>)
        S == {i \in 1..Len(t) : stopAt(i) # 0}
    IN  IF S = {} THEN None
        ELSE LET i == Least(S)
                 e == stopAt(i)
                 g == TokenGroup(t, e, YES_NO_TRUE_FALSE)
                 stop == IF g = None THEN e - 1 ELSE g[1][2]
             IN  Some(Match(SubSeq(text, i, stop), <<Cut(text, g)>>))

\* flat\s+roof\s+insulation(?:\s*[:\-]?\s*(yes|no|present|absent|true|false))?
re_flat_roof(text) == SearchPhrase(text, <<"flat", "roof", "insulation">>, YES_NO_TRUE_FALSE)

\* \bA\b for a phrase A of words: is there a match
SearchBounded(text, ws) ==
    LET t == Lower(text)
    IN  \E i \in 1..Len(t) :
           /\ WordBoundary(t, i)
           /\ MatchWords(t, i, ws) # 0
           /\ WordBoundary(t, MatchWords(t, i, ws))

\* \bMEV\b|\bdecentralised\s+extract\b|\bMVHR\b|\bmechanical\s+ventilation\b
re_mech_vent(text) ==
    \/ SearchBounded(text, <<"mev">>)
    \/ SearchBounded(text, <<"decentralised", "extract">>)
    \/ SearchBounded(text, <<"mvhr">>)
    \/ SearchBounded(text, <<"mechanical", "ventilation">>)

\* double\s+glaz(ed|ing)(?:\s*[:\-]?\s*(yes|no))?
re_double_glaz(text) ==
    LET t == Lower(text)
        stem(i) == MatchWords(t, i, <<"double", "glaz">>)
        S == {i \in 1..Len(t) : stem(i) # 0 /\ FirstAlt(t, stem(i), <<"ed", "ing">>) # 0}
    IN  IF S = {} THEN None
        ELSE LET i == Least(S)
                 a == stem(i)
                 k == FirstAlt(t, a, <<"ed", "ing">>)
                 e == a + Len(<<"ed", "ing">>[k])
                 g == TokenGroup(t, e, <<"yes", "no">>)
                 stop == IF g = None THEN e - 1 ELSE g[1][2]
             IN  Some(Match(SubSeq(text, i, stop),
                            <<Some(SubSeq(text, a, e - 1)), Cut(text, g)>>))

\* (\d+)\s+low[- ]energy\s+of\s+(\d+)
re_lights(text) ==
    LET t == Lower(text)
        \* the position of group 2, 0 if there is no match at i
        ofAt(i) ==
            LET d == SkipDigits(t, i)
                l == SkipWs(t, d)
                n == IF At(t, l, "low-energy") \/ At(t, l, "low energy")
                       THEN MatchWords(t, l + 4, <<"energy", "of">>) ELSE 0
                o == SkipWs(t, n)
            IN  IF d > i /\ IsSpace(Ch(t, d)) /\ n # 0 /\ IsSpace(Ch(t, n)) /\ IsDigit(Ch(t, o))
                  THEN o ELSE 0
        S == {i \in 1..Len(t) : ofAt(i) # 0}
    IN  IF S = {} THEN None
        ELSE LET i == Least(S)
                 o == ofAt(i)
                 stop == SkipDigits(t, o) - 1
             IN  Some(Match(SubSeq(text, i, stop),
                            <<Some(SubSeq(text, i, SkipDigits(t, i) - 1)),
                              Some(SubSeq(text, o, stop))>>))

\* (smart|zoned|trv|programm(er|able)|room\s*thermostat) at position q: the
\* position after the match, 0 if none
ControlWordAt(t, q) ==
    IF At(t, q, "smart") THEN q + 5
    ELSE IF At(t, q, "zoned") THEN q + 5
    ELSE IF At(t, q, "trv") THEN q + 3
    ELSE IF At(t, q, "programmer") THEN q + 10
    ELSE IF At(t, q, "programmable") THEN q + 12
    ELSE IF At(t, q, "room") /\ At(t, SkipWs(t, q + 4), "thermostat")
      THEN SkipWs(t, q + 4) + 10
    ELSE 0

\* .*? from position p up to the first control word: its position, 0 if none
\* (. does not match a line break)
LazyControlWord(t, p) ==
    LET S == {q \in p..Len(t) :
                /\ ControlWordAt(t, q) # 0
                /\ \A x \in p..(q - 1) : Ch(t, x) # "\n"}
    IN  IF S = {} THEN 0 ELSE Least(S)

\* heating\s+controls?.*?(smart|zoned|trv|programm(er|able)|room\s*thermostat)
re_heating_controls(text) ==
    LET t == Lower(text)
        \* the position of group 1, 0 if there is no match at i
        wordAt(i) ==
            LET e == MatchWords(t, i, <<"heating", "control">>)
            IN  IF e = 0 THEN 0
                ELSE IF Ch(t, e) = "s" /\ LazyControlWord(t, e + 1) # 0
                  THEN LazyControlWord(t, e + 1)
                ELSE LazyControlWord(t, e)
        S == {i \in 1..Len(t) : wordAt(i) # 0}
    IN  IF S = {} THEN None
        ELSE LET i == Least(S)
                 q == wordAt(i)
                 stop == ControlWordAt(t, q) - 1
             IN  Some(Match(SubSeq(text, i, stop), <<Some(SubSeq(text, q, stop))>>))

\* smart|zoned|trv searched in m.group(0)
re_smart_zoned_trv(whole) ==
    LET t == Lower(whole)
    IN  Contains(t, "smart") \/ Contains(t, "zoned") \/ Contains(t, "trv")

\* \bsolar\s+pv\b|\bphotovoltaic\b
re_pv(text) == SearchBounded(text, <<"solar", "pv">>) \/ SearchBounded(text, <<"photovoltaic">>)

\* to_bool(m.group(1) if m and m.lastindex else (m.group(0) if m else None))
GroupOneOrWhole(m) ==
    to_bool(IF m # None /\ lastindex(m[1]) # 0 THEN m[1].groups[1]
            ELSE IF m # None THEN Some(m[1].whole)
            ELSE None)

\* the dict parse_site_notes(text) returns
parse_site_notes(text) ==
    LET loft_m == re_loft(text)
        loft_insulation_mm ==
            IF loft_m # None /\ lastindex(loft_m[1]) # 0
              THEN to_int(loft_m[1].groups[1]) ELSE None
        glaz_m == re_double_glaz(text)
        lights_m == re_lights(text)
        heat_m == re_heating_controls(text)
    IN  [smart_gas_meter |-> GroupOneOrWhole(re_smart_gas(text)),
         smart_elec_meter |-> GroupOneOrWhole(re_smart_elec(text)),
         loft_insulation_mm |-> loft_insulation_mm,
         loft_insulated |-> Some(loft_insulation_mm # None /\ loft_insulation_mm[1] > 0),
         cavity_wall_insulation |-> GroupOneOrWhole(re_cavity(text)),
         flat_roof_insulated |-> GroupOneOrWhole(re_flat_roof(text)),
         mechanical_ventilation |-> Some(re_mech_vent(text)),
         double_glazed |->
            IF glaz_m # None /\ lastindex(glaz_m[1]) # 0 /\ glaz_m[1].groups[2] # None
              THEN to_bool(glaz_m[1].groups[2]) ELSE Some(glaz_m # None),
         low_energy_lights |-> IF lights_m # None THEN to_int(lights_m[1].groups[1]) ELSE None,
         lights_total |-> IF lights_m # None THEN to_int(lights_m[1].groups[2]) ELSE None,
         heating_controls_smart |->
            Some(heat_m # None /\ re_smart_zoned_trv(heat_m[1].whole)),
         pv_present |-> Some(re_pv(text))]

(***************************************************************************)
(* parse_summary, parse_numeric_measures (src/app.py 73-116).  Of the      *)
(* summary, the keys the diff and the header read are modelled: address,   *)
(* uprn, sap_current, ei_current and fuel_bill.  A float is the number of  *)
(* its hundredths; the texts hold at most two decimals.                    *)
(***************************************************************************)
Greatest(S) == CHOOSE x \in S : \A y \in S : y <= x

\* float() of the digits before and after the point, in hundredths
Hundredths(whole, frac) == ParseNat(whole) * 100 + ParseNat(SubSeq(frac \o "00", 1, 2))

\* ([0-9]+(?:\.[0-9]+)?) at position r: the position after it, 0 if none
DecimalStop(t, r) ==
    LET d == SkipDigits(t, r)
    IN  IF d = r THEN 0
        ELSE IF Ch(t, d) = "." /\ IsDigit(Ch(t, d + 1)) THEN SkipDigits(t, d + 1)
        ELSE d

\* float(s) of a string s matched by [0-9]*(?:\.[0-9]+)?, not empty
DecimalValue(s) ==
    LET d == SkipDigits(s, 1)
    IN  Hundredths(SubSeq(s, 1, d - 1), SubSeq(s, d + 1, Len(s)))

\* UPRN:\s*([A-Za-z0-9\-]+)
re_uprn(text) ==
    LET t == Lower(text)
        inClass(c) == c \in LowerChars \cup DigitChars \cup {"-"}
        S == {i \in 1..Len(t) : At(t, i, "uprn:") /\ inClass(Ch(t, SkipWs(t, i + 5)))}
    IN  IF S = {} THEN None
        ELSE LET g == SkipWs(t, Least(S) + 5)
                 e == Least({x \in g..Len(t) : ~inClass(Ch(t, x + 1))})
             IN  Some(Match(SubSeq(text, Least(S), e), <<Some(SubSeq(text, g, e))>>))

\* \s*(?:UPRN|Postcode|$) at position x
AddressEnds(t, x) ==
    LET y == SkipWs(t, x)
    IN  At(t, y, "uprn") \/ At(t, y, "postcode") \/ y = Len(t) + 1

\* (.+?)\s*(?:UPRN|Postcode|$) with group 1 starting at g: the last position
\* of group 1, 0 if none (. does not match a line break)
AddressGroupEnd(t, g) ==
    LET S == {e \in g..Len(t) :
                (\A x \in g..e : Ch(t, x) # "\n") /\ AddressEnds(t, e + 1)}
    IN  IF S = {} THEN 0 ELSE Least(S)

\* Address\s*:\s*(.+?)\s*(?:UPRN|Postcode|$)
re_address(text) ==
    LET t == Lower(text)
        \* where group 1 starts in the match at i, 0 if there is none: the
        \* \s* after the colon takes as much as leaves a match
        groupAt(i) ==
            LET p == SkipWs(t, i + 7)
                G == {g \in (p + 1)..SkipWs(t, p + 1) : AddressGroupEnd(t, g) # 0}
            IN  IF At(t, i, "address") /\ Ch(t, p) = ":" /\ G # {} THEN Greatest(G) ELSE 0
        S == {i \in 1..Len(t) : groupAt(i) # 0}
    IN  IF S = {} THEN None
        ELSE LET i == Least(S)
                 g == groupAt(i)
                 e == AddressGroupEnd(t, g)
             IN  Some(Match(SubSeq(text, i, e), <<Some(SubSeq(text, g, e))>>))

\* _search(pat, text): group 1 of the match, stripped
_search(m) == IF m = None THEN None ELSE Some(Strip(m[1].groups[1][1]))

\* Current X rating:\s*([A-G])\s*(\d+)\s*Potential X rating:\s*([A-G])\s*(\d+)
\* for X the lower-cased kind: groups 1 to 4
re_rating(text, kind) ==
    LET t == Lower(text)
        cur == "current " \o kind \o " rating:"
        pot == "potential " \o kind \o " rating:"
        isBand(c) == c \in Chars("abcdefg")
        \* <<band, digits, position after the digits>> of the block at i
        block(i, label) ==
            LET b == SkipWs(t, i + Len(label))
                d == SkipWs(t, b + 1)
            IN  IF At(t, i, label) /\ isBand(Ch(t, b)) /\ SkipDigits(t, d) > d
                  THEN <<b, d, SkipDigits(t, d)>> ELSE <<0, 0, 0>>
        ok(i) == /\ block(i, cur)[3] # 0
                 /\ block(SkipWs(t, block(i, cur)[3]), pot)[3] # 0
        S == {i \in 1..Len(t) : ok(i)}
    IN  IF S = {} THEN None
        ELSE LET i == Least(S)
                 c == block(i, cur)
                 q == block(SkipWs(t, c[3]), pot)
             IN  Some(Match(SubSeq(text, i, q[3] - 1),
                            <<Some(SubSeq(text, c[1], c[1])), Some(SubSeq(text, c[2], c[3] - 1)),
                              Some(SubSeq(text, q[1], q[1])), Some(SubSeq(text, q[2], q[3] - 1))>>))

POUND == "£"

\* (?:Fuel Bill|Estimated Fuel Costs?)\s*:\s*£?\s*([\d,]+(?:\.\d+)?)
re_fuel_bill(text) ==
    LET t == Lower(text)
        RECURSIVE skipDigitsCommas(_)
        skipDigitsCommas(x) ==
            IF IsDigit(Ch(t, x)) \/ Ch(t, x) = "," THEN skipDigitsCommas(x + 1) ELSE x
        \* the position after the label at i, 0 if there is none
        labelAt(i) ==
            IF At(t, i, "fuel bill") THEN i + 9
            ELSE IF At(t, i, "estimated fuel costs") THEN i + 20
            ELSE IF At(t, i, "estimated fuel cost") THEN i + 19
            ELSE 0
        \* where group 1 starts in the match at i, 0 if there is none
        groupAt(i) ==
            LET p == SkipWs(t, labelAt(i))
                q == SkipWs(t, p + 1)
                r == IF At(t, q, Lower(POUND)) THEN SkipWs(t, q + Len(POUND)) ELSE q
            IN  IF labelAt(i) # 0 /\ Ch(t, p) = ":" /\ skipDigitsCommas(r) > r THEN r ELSE 0
        S == {i \in 1..Len(t) : groupAt(i) # 0}
    IN  IF S = {} THEN None
        ELSE LET i == Least(S)
                 g == groupAt(i)
                 d == skipDigitsCommas(g)
                 e == IF Ch(t, d) = "." /\ IsDigit(Ch(t, d + 1)) THEN SkipDigits(t, d + 1) ELSE d
             IN  Some(Match(SubSeq(text, i, e - 1), <<Some(SubSeq(text, g, e - 1))>>))

\* str.replace(",", "")
RECURSIVE DropCommas(_)
DropCommas(s) ==
    IF s = "" THEN ""
    ELSE (IF Head(s) = "," THEN "" ELSE Head(s)) \o DropCommas(Tail(s))

\* _search_float(pat, text): float() of group 1 without its commas, None
\* when float() raises
_search_float(m) ==
    IF m = None THEN None
    ELSE LET v == DropCommas(m[1].groups[1][1])
         IN  IF v = "" THEN None ELSE Some(DecimalValue(v))

\* the dict parse_summary(text) returns; a key that is not set reads as None
\* with .get
parse_summary(text) ==
    LET sap == re_rating(text, "sap")
        ei == re_rating(text, "ei")
    IN  [sap_current |-> IF sap # None THEN to_int(sap[1].groups[2]) ELSE None,
         ei_current |-> IF ei # None THEN to_int(ei[1].groups[2]) ELSE None,
         fuel_bill |-> _search_float(re_fuel_bill(text)),
         uprn |-> _search(re_uprn(text)),
         address |-> _search(re_address(text))]

AREA_LABELS ==
    <<"Room(s) in Roof", "Rooms in Roof", "Room in Roof", "1st Floor", "First Floor",
      "Ground Floor", "2nd Floor", "Second Floor", "Total Floor Area">>

\* label\s*:\s*([0-9]+(?:\.[0-9]+)?)
re_measure(text, label) ==
    LET t == Lower(text)
        l == Lower(label)
        \* where group 1 starts in the match at i, 0 if there is none
        groupAt(i) ==
            LET p == SkipWs(t, i + Len(l))
                g == SkipWs(t, p + 1)
            IN  IF At(t, i, l) /\ Ch(t, p) = ":" /\ DecimalStop(t, g) # 0 THEN g ELSE 0
        S == {i \in 1..Len(t) : groupAt(i) # 0}
    IN  IF S = {} THEN None
        ELSE LET g == groupAt(Least(S))
                 e == DecimalStop(t, g)
             IN  Some(Match(SubSeq(text, Least(S), e - 1), <<Some(SubSeq(text, g, e - 1))>>))

\* the dict parse_numeric_measures(text) returns: the labels that matched
parse_numeric_measures(text) ==
    LET matched == {k \in 1..Len(AREA_LABELS) : re_measure(text, AREA_LABELS[k]) # None}
    IN  [label \in {AREA_LABELS[k] : k \in matched} |->
            DecimalValue(re_measure(text, label)[1].groups[1][1])]

(***************************************************************************)
(* parse_recommendations (src/app.py 118-125 and, after the site-notes     *)
(* functions pasted into it, 296-300) and pick_status (64-71)              *)
(***************************************************************************)
REC_NAMES ==
    <<"Flat roof insulation", "Room-in-roof insulation", "Floor insulation (solid floor)",
      "Heating controls for wet central heating system", "Loft insulation",
      "Cavity wall insulation", "Draught proofing", "Low energy lighting">>

\* name\s*\(([^)]+)\)
re_rec(text, name) ==
    LET t == Lower(text)
        l == Lower(name)
        \* the position of the closing bracket in the match at i, 0 if none
        closeAt(i) ==
            LET p == SkipWs(t, i + Len(l))
                C == {c \in (p + 1)..Len(t) : Ch(t, c) = ")"}
            IN  IF At(t, i, l) /\ Ch(t, p) = "(" /\ C # {} /\ Least(C \cup {Len(t) + 1}) > p + 1
                  THEN Least(C) ELSE 0
        S == {i \in 1..Len(t) : closeAt(i) # 0}
    IN  IF S = {} THEN None
        ELSE LET i == Least(S)
                 c == closeAt(i)
                 p == SkipWs(t, i + Len(l))
             IN  Some(Match(SubSeq(text, i, c), <<Some(SubSeq(text, p + 1, c - 1))>>))

\* the dict the loop over REC_NAMES fills: a key for each name that matched
parse_recommendations(text) ==
    LET matched == {k \in 1..Len(REC_NAMES) : re_rec(text, REC_NAMES[k]) # None}
    IN  [name \in {REC_NAMES[k] : k \in matched} |->
            Title(Strip(re_rec(text, name)[1].groups[1][1]))]

STAT_ORDER == <<"already installed", "not applicable", "sap increase too small", "recommended">>

\* choose(raw) of pick_status
choose(raw) ==
    LET txt == Lower(raw)
        S == {k \in 1..Len(STAT_ORDER) : Contains(txt, STAT_ORDER[k])}
    IN  IF S # {} THEN Title(STAT_ORDER[Least(S)])
        ELSE IF raw # "" THEN Strip(raw)
        ELSE ""

pick_status(pre_text, post_text) == <<choose(pre_text), choose(post_text)>>

\* the record gather(path) returns for a document whose extracted text is text
gather(text) ==
    [summary |-> parse_summary(text),
     measures |-> parse_numeric_measures(text),
     recs |-> parse_recommendations(text),
     notes |-> parse_site_notes(text)]

(***************************************************************************)
(* gather applied to the text of one document.                             *)
(***************************************************************************)
\* at most this many lines in a document of site notes
MaxNoteLines == 2
\* at most this many lines in each document uploaded to /compare
MaxDocLines == 1

\* the texts of at most k lines drawn from lines
RECURSIVE TextsOf(_, _)
TextsOf(lines, k) ==
    IF k = 0 THEN {""}
    ELSE LET less == TextsOf(lines, k - 1)
         IN  less \cup lines \cup {t \o "\n" \o l : t \in less \ {""}, l \in lines}

NoteLines ==
    {"Smart gas meter: Yes", "smart gas meter - no", "smart gas meter",
     "smart electric meter: yes", "Smart electricity meter: no", "smart electric meter",
     "smart electricity meter",
     "Loft insulation: 270mm", "loft insulation 0 mm", "Loft insulation (Uninsulated)",
     "cavity wall insulation: no", "flat roof insulation",
     "MVHR", "double glazing: no", "Double glazed", "Solar PV",
     "heating controls: programmer and TRV", "heating controls: room thermostat",
     "3 low-energy of 0", "4 low energy of 8",
     "Draught proofing (recommended)"}

InitParse ==
    /\ pc = "idle"
    /\ doc_text \in TextsOf(NoteLines, MaxNoteLines)
    /\ doc = Unused
    /\ QaUnused
    /\ DiffUnused

\* one call of gather on the document
Gather ==
    /\ pc = "idle"
    /\ doc' = gather(doc_text)
    /\ pc' = "done"
    /\ UNCHANGED <<doc_text, qaVars, diffVars>>

NextParse == Gather

SpecParse == InitParse /\ [][NextParse]_vars

(***************************************************************************)
(* The /compare handler (src/app.py 331-398), for an authenticated         *)
(* request with both files attached, from the extracted texts on: the two  *)
(* records, the header and the diff that are handed to the report          *)
(* template.  The dates and the notes of the form are passed through to    *)
(* the header and are left out.                                            *)
(***************************************************************************)
\* the record of a document when APP_SAFE is set: its summary is {}, of which
\* .get gives None for every key
NoData ==
    [summary |-> [sap_current |-> None, ei_current |-> None, fuel_bill |-> None,
                  uprn |-> None, address |-> None],
     measures |-> <<>>,
     recs |-> <<>>]

\* d.get(k) and d.get(k, default) of a dict d
get(d, k) == IF k \in DOMAIN d THEN Some(d[k]) ELSE None
get_or(d, k, default) == IF k \in DOMAIN d THEN d[k] ELSE default

\* form or a or b or "" for a str form and optional str a, b, the other way round
header_value_extracted_first(form, a, b) ==
    IF a # None /\ a[1] # "" THEN a[1]
    ELSE IF b # None /\ b[1] # "" THEN b[1]
    ELSE form

\* form or a or b or "" for a str form and optional str a, b
header_value(form, a, b) ==
    IF form # "" THEN form
    ELSE IF a # None /\ a[1] # "" THEN a[1]
    ELSE IF b # None /\ b[1] # "" THEN b[1]
    ELSE ""

\* delta(a, b) of compare, with the operands the wrong way round
compare_delta_reversed(a, b) == IF a = None \/ b = None THEN None ELSE Some(a[1] - b[1])

\* delta(a, b) of compare
compare_delta(a, b) == IF a = None \/ b = None THEN None ELSE Some(b[1] - a[1])

\* the header compare builds
compare_header(req, p, q) ==
    [address |-> header_value(req.address, p.summary.address, q.summary.address),
     uprn |-> header_value(req.uprn, p.summary.uprn, q.summary.uprn)]

\* the diff compare builds
compare_diff(p, q) ==
    [sap_change |-> compare_delta(p.summary.sap_current, q.summary.sap_current),
     ei_change |-> compare_delta(p.summary.ei_current, q.summary.ei_current),
     fuel_bill_change |-> compare_delta(p.summary.fuel_bill, q.summary.fuel_bill),
     recs |-> [n \in DOMAIN p.recs \cup DOMAIN q.recs |->
                 LET pq == pick_status(get_or(p.recs, n, ""), get_or(q.recs, n, ""))
                 IN  [pre |-> pq[1], post |-> pq[2]]],
     areas |-> [label \in DOMAIN p.measures \cup DOMAIN q.measures |->
                 LET a == get(p.measures, label)
                     b == get(q.measures, label)
                 IN  [pre |-> a, post |-> b, delta |-> compare_delta(a, b)]]]

\* the lines of the uploaded documents
DocLines ==
    << "Address: 1 High St UPRN: 12", "Address: 2 Low Rd",
       "Current SAP rating: D 65 Potential SAP rating: B 82",
       "Current SAP rating: C 70 Potential SAP rating: B 82",
       "Fuel Bill: £1,234.50", "Estimated Fuel Costs: 980",
       "Ground Floor: 45.5", "Ground Floor: 50",
       "Loft insulation (Uninsulated)", "Loft insulation (Already installed)" >>

\* the texts of at most k of the lines from the i-th on, in their order
RECURSIVE LinesFrom(_, _)
LinesFrom(i, k) ==
    IF k = 0 \/ i > Len(DocLines) THEN {""}
    ELSE LET rest == LinesFrom(i + 1, k - 1)
         IN  LinesFrom(i + 1, k) \cup
             {IF t = "" THEN DocLines[i] ELSE DocLines[i] \o "\n" \o t : t \in rest}

\* the extracted texts of the uploads
Documents == LinesFrom(1, MaxDocLines)

InitDiff ==
    /\ pc = "idle"
    /\ APP_SAFE \in BOOLEAN
    /\ request \in [pre_text : Documents,
                    post_text : Documents,
                    address : {"", "9 Form Rd"},
                    uprn : {"", "77"}]
    /\ pre_data = Unused
    /\ post_data = Unused
    /\ header = Unused
    /\ diff = Unused
    /\ QaUnused
    /\ ParseUnused

\* one request to /compare
Compare ==
    /\ pc = "idle"
    /\ \E data \in {[side \in {"pre_text", "post_text"} |->
                       IF APP_SAFE THEN NoData ELSE gather(request[side])]} :
          /\ pre_data' = data["pre_text"]
          /\ post_data' = data["post_text"]
    /\ header' = compare_header(request, pre_data', post_data')
    /\ diff' = compare_diff(pre_data', post_data')
    /\ pc' = "done"
    /\ UNCHANGED <<APP_SAFE, request, qaVars, parseVars>>

NextDiff == Compare

SpecDiff == InitDiff /\ [][NextDiff]_vars

(***************************************************************************)
(* Properties of gather.                                                   *)
(***************************************************************************)
\* C2 as stated: the recommendation map of a document has exactly the 8
\* names of REC_NAMES as keys, and a name that did not match maps to "".
C2_EightKeys ==
    pc = "done" =>
      /\ DOMAIN doc.recs = {REC_NAMES[k] : k \in 1..Len(REC_NAMES)}
      /\ \A k \in 1..Len(REC_NAMES) :
            re_rec(doc_text, REC_NAMES[k]) = None => doc.recs[REC_NAMES[k]] = ""

\* the text says one of the phrases (whatever the case of the letters)
Mentions(txt, phrases) == \E ph \in phrases : Contains(Lower(txt), ph)

\* C7 as stated: a boolean site-note attribute is null, never false, when
\* the text does not mention it; so are mechanical_ventilation,
\* double_glazed, pv_present, heating_controls_smart and loft_insulated.
C7_NullWhenNotMentioned ==
    pc = "done" =>
      LET unmentioned(phrases, v) == ~Mentions(doc_text, phrases) => v = None
      IN  /\ unmentioned({"smart gas meter"}, doc.notes.smart_gas_meter)
          /\ unmentioned({"smart electric"}, doc.notes.smart_elec_meter)
          /\ unmentioned({"cavity wall", "cav wall"}, doc.notes.cavity_wall_insulation)
          /\ unmentioned({"flat roof"}, doc.notes.flat_roof_insulated)
          /\ unmentioned({"mev", "mvhr", "decentralised extract", "mechanical ventilation"},
                         doc.notes.mechanical_ventilation)
          /\ unmentioned({"double glaz"}, doc.notes.double_glazed)
          /\ unmentioned({"solar pv", "photovoltaic"}, doc.notes.pv_present)
          /\ unmentioned({"heating control"}, doc.notes.heating_controls_smart)
          /\ unmentioned({"loft insulation"}, doc.notes.loft_insulated)

\* the boolean of an explicit yes/no token
TokenBool(tok) == Lower(tok) \in {"yes", "present", "true", "on"}

\* what C9 says of a meter phrase: m is its match, n the group of the token
MeterValue(m, n) ==
    IF m = None THEN None
    ELSE IF m[1].groups[n] # None THEN Some(TokenBool(m[1].groups[n][1]))
    ELSE Some(TRUE)

\* C9 as stated: for smart_gas_meter and smart_elec_meter alike, the
\* attribute is the boolean of the yes/no token that follows the phrase, true
\* when the phrase has no token, null when the phrase does not occur,
\* whatever the suffix of the word "electric".
C9_MeterToken ==
    pc = "done" =>
      /\ doc.notes.smart_gas_meter = MeterValue(re_smart_gas(doc_text), 1)
      /\ doc.notes.smart_elec_meter = MeterValue(re_smart_elec(doc_text), 2)

(***************************************************************************)
(* Properties of the /compare handler.                                     *)
(***************************************************************************)
CanonicalStatuses ==
    {"Already Installed", "Not Applicable", "Sap Increase Too Small", "Recommended"}

\* C3 as stated: every pre and post status of the diff's recommendation
\* pairs is one of the four canonical values or the empty string.
C3_CanonicalStatus ==
    pc = "done" =>
      \A n \in DOMAIN diff.recs :
        /\ diff.recs[n].pre \in CanonicalStatuses \cup {""}
        /\ diff.recs[n].post \in CanonicalStatuses \cup {""}

\* the operands on which the delta of compare_site_notes is tried
DeltaOperands == {None} \cup {Some(n) : n \in (0 - MaxCount)..MaxCount}

\* null when a side is null, else post minus pre
PostMinusPre(a, b) == IF a = None \/ b = None THEN None ELSE Some(b[1] - a[1])

\* C5: the delta of the diff and the delta of the QA engine are null when
\* either operand is null and post minus pre otherwise; in the diff, every
\* label of either measure map has an entry, and a label of only one of the
\* two maps has the missing side null and a null delta.
C5_Delta ==
    pc = "done" =>
      LET ps == pre_data.summary
          qs == post_data.summary
          pm == pre_data.measures
          qm == post_data.measures
      IN  /\ diff.sap_change = PostMinusPre(ps.sap_current, qs.sap_current)
          /\ diff.ei_change = PostMinusPre(ps.ei_current, qs.ei_current)
          /\ diff.fuel_bill_change = PostMinusPre(ps.fuel_bill, qs.fuel_bill)
          /\ DOMAIN diff.areas = DOMAIN pm \cup DOMAIN qm
          /\ \A label \in DOMAIN diff.areas :
                LET e == diff.areas[label]
                IN  /\ e.pre = (IF label \in DOMAIN pm THEN Some(pm[label]) ELSE None)
                    /\ e.post = (IF label \in DOMAIN qm THEN Some(qm[label]) ELSE None)
                    /\ e.delta = PostMinusPre(e.pre, e.post)
                    /\ label \notin DOMAIN pm \/ label \notin DOMAIN qm => e.delta = None
          /\ \A a, b \in DeltaOperands : delta(a, b) = PostMinusPre(a, b)

\* C5's case: a label of the PRE measures alone, in the diff with a null
\* POST side and a null delta
C5_Witness ==
    /\ pc = "done"
    /\ \E label \in DOMAIN pre_data.measures \ DOMAIN post_data.measures :
          diff.areas[label].post = None /\ diff.areas[label].delta = None

\* PRE's extracted value if it has one, else POST's, else None
Extracted(a, b) ==
    IF a # None /\ a[1] # "" THEN a
    ELSE IF b # None /\ b[1] # "" THEN b
    ELSE None

\* C8 as stated: the caller's address (UPRN) is shown only when neither
\* document yielded one; when extraction found one, that one is shown.
C8_CallerOnlyWhenNoneExtracted ==
    pc = "done" =>
      LET shown(form, a, b, h) ==
            IF Extracted(a, b) # None THEN h = Extracted(a, b)[1] ELSE h = form
      IN  /\ shown(request.address, pre_data.summary.address,
                   post_data.summary.address, header.address)
          /\ shown(request.uprn, pre_data.summary.uprn,
                   post_data.summary.uprn, header.uprn)

\* C8, amended: a caller-supplied address (UPRN) that is not empty is always
\* the one shown, also when extraction found one; when the caller supplied
\* none, the value extracted from the PRE document is shown, else the one
\* from the POST document, else the empty string.
C8_CallerFirst ==
    pc = "done" =>
      LET shown(form, a, b, h) ==
            IF form # "" THEN h = form
            ELSE IF Extracted(a, b) # None THEN h = Extracted(a, b)[1]
            ELSE h = ""
      IN  /\ shown(request.address, pre_data.summary.address,
                   post_data.summary.address, header.address)
          /\ shown(request.uprn, pre_data.summary.uprn,
                   post_data.summary.uprn, header.uprn)

\* C8's case: the caller supplied an address, the PRE document yielded
\* another one, and the header is built
C8_Witness ==
    /\ pc = "done"
    /\ request.address # ""
    /\ pre_data.summary.address # None
    /\ pre_data.summary.address # Some(request.address)
    /\ header.address = request.address

=============================================================================
